---- MODULE Spec2Model ----
(***************************************************************************)
(* Undo log, checkpoints and scheduler selection of anki's Collection      *)
(* (pylib/anki/collection.py).                                             *)
(*                                                                         *)
(* The collection is modelled as one session object: the working copy of   *)
(* the storage (store), the last committed copy (disk), the DBProxy flags, *)
(* the Python undo entry (_undo), the loaded scheduler, the backend's      *)
(* undo/redo stacks and the checkpoint timer.  Every method of Collection  *)
(* that touches the undo log or the scheduler is one action; a handler is  *)
(* written as a function from session record to session record so that     *)
(* the calls it makes compose in the order of the code.                    *)
(***************************************************************************)
EXTENDS Integers, Sequences, FiniteSets, TLC

(* ---------------- bounds of the model ---------------- *)
\* number of calls that write new data (answers, backend updates, scheduler
\* changes) a run may issue
MaxOps == 2
\* deepest backend undo stack that is tracked
MaxBackendUndo == 1

(* ---------------- program constants ---------------- *)
QUEUE_TYPE_SIBLING_BURIED == -2
QUEUE_TYPE_NEW == 0
QUEUE_TYPE_LRN == 1
QUEUE_TYPE_REV == 2
QUEUE_TYPE_DAY_LEARN_RELEARN == 3
QUEUE_TYPE_PREVIEW == 4
CARD_TYPE_NEW == 0
CARD_TYPE_LRN == 1
CARD_TYPE_REV == 2
CARD_TYPE_RELEARNING == 3
\* autosave() keeps a checkpoint for this many seconds
AutosaveAfter == 300
\* configuration defaults of the answer processor
GraduatingIvl == 1
StartingEase == 2500
EaseFloor == 1300
EaseLapseDelta == 200
LeechThreshold == 2

supportedSchedulerVersions == {1, 2}

CardIds == {1, 2}
\* both cards are siblings of note 1
\* deck 1 is a normal deck, deck 2 a filtered deck with rescheduling off
Decks == {1, 2}
CheckpointNames == {"Add Note"}
ReviewLabel == "Review"
\* grades: 1 = again, 3 = good
Grades == {1, 3}

VARIABLES
    store,      \* working copy of the storage (inside the open transaction)
    disk,       \* last committed copy of the storage
    db,         \* DBProxy: in_txn, modified_in_python, last_begin_at
    _undo,      \* Collection._undo
    sched,      \* Collection.sched: generation, reps, in-memory queue
    backend,    \* the backend's undo and redo stacks (names)
    ops,        \* number of writing calls issued so far
    since_checkpoint, \* time.time() - _last_checkpoint_at, in seconds
    result,     \* what the last call returned or raised
    pre         \* what the last answer_card saw before it mutated anything

vars == <<store, disk, db, _undo, sched, backend, ops, since_checkpoint,
          result, pre>>

(* ---------------- the undo entry ---------------- *)
NoUndo == [kind |-> "none", entries |-> <<>>, name |-> ""]
_ReviewsUndo(entries) == [kind |-> "reviews", entries |-> entries, name |-> ""]
Checkpoint(name) == [kind |-> "checkpoint", entries |-> <<>>, name |-> name]
ReviewUndo(cid, card, was_leech) ==
    [cid |-> cid, card |-> card, was_leech |-> was_leech]

(* ---------------- the session record ---------------- *)
Cur ==
    [store |-> store, disk |-> disk, db |-> db, undo |-> _undo,
     sched |-> sched, backend |-> backend,
     since_checkpoint |-> since_checkpoint]

Max(a, b) == IF a >= b THEN a ELSE b

\* the timestamp this call reads from the clock: later than every stored one
Now == 1 + Max(store.mod, Max(disk.mod, db.last_begin_at))

\* Timestamps are only ever compared with each other, so after each call the
\* stored ones are renumbered 0, 1, 2 in their order.
Rank(t, S) ==
    Cardinality({u \in {S.store.mod, S.disk.mod, S.db.last_begin_at} : u < t})

Renumbered(S) ==
    [S EXCEPT !.store.mod = Rank(@, S),
              !.disk.mod = Rank(@, S),
              !.db.last_begin_at = Rank(@, S)]

(* ---------------- DBProxy ---------------- *)
db_begin(S) ==
    [S EXCEPT !.db.in_txn = TRUE, !.db.last_begin_at = S.store.mod]

db_commit(S) ==
    [S EXCEPT !.disk = S.store, !.db.in_txn = FALSE]

db_rollback(S) ==
    [S EXCEPT !.store = S.disk, !.db.in_txn = FALSE]

\* a statement that starts with insert, update or delete
db_execute_dml(S) ==
    [S EXCEPT !.db.modified_in_python = TRUE,
              !.backend = [undo |-> <<>>, redo |-> <<>>]]

(* ---------------- backend ---------------- *)
\* a backend operation that records no undo step: it drops the backend's
\* undo state and stamps the collection as modified
backend_write_no_undo(S, now) ==
    [S EXCEPT !.store.mod = now,
              !.backend = [undo |-> <<>>, redo |-> <<>>]]

\* a backend operation that records an undo step under the given name
backend_write_undoable(S, now, name) ==
    [S EXCEPT !.store.mod = now,
              !.backend = [undo |-> Append(S.backend.undo, name),
                           redo |-> <<>>]]

backend_undo(S, now) ==
    [S EXCEPT !.store.mod = now,
              !.backend =
                  [undo |-> SubSeq(S.backend.undo, 1, Len(S.backend.undo) - 1),
                   redo |-> Append(S.backend.redo,
                                   S.backend.undo[Len(S.backend.undo)])]]

\* get_undo_status(): the names on top of the two stacks, "" when empty
status_undo(S) ==
    IF S.backend.undo = <<>> THEN "" ELSE S.backend.undo[Len(S.backend.undo)]

status_redo(S) ==
    IF S.backend.redo = <<>> THEN "" ELSE S.backend.redo[Len(S.backend.redo)]

(* ---------------- Collection: transactions ---------------- *)
modified_by_backend(S) == S.db.last_begin_at # S.store.mod

clear_python_undo(S) == [S EXCEPT !.undo = NoUndo]

\* variant: a save without a name leaves a pending checkpoint in place
_save_checkpoint_keeps_checkpoint(S, name) ==
    LET T == [S EXCEPT !.since_checkpoint = 0]
    IN  IF name # "" THEN [T EXCEPT !.undo = Checkpoint(name)] ELSE T

\* variant: a named checkpoint does not displace a pending reviews batch
_save_checkpoint_keeps_reviews(S, name) ==
    LET T == [S EXCEPT !.since_checkpoint = 0]
    IN  IF T.undo.kind = "reviews" THEN T
        ELSE IF name # "" THEN [T EXCEPT !.undo = Checkpoint(name)]
        ELSE clear_python_undo(T)

_save_checkpoint(S, name) ==
    LET T == [S EXCEPT !.since_checkpoint = 0]
    IN  IF name # ""
        THEN [T EXCEPT !.undo = Checkpoint(name)]
        ELSE IF T.undo.kind # "reviews" THEN clear_python_undo(T) ELSE T

\* variant: with nothing to commit the transaction is left open
save_skips_rollback(S, name, trx) ==
    LET T == IF S.db.modified_in_python \/ modified_by_backend(S)
             THEN LET C == db_commit([S EXCEPT !.db.modified_in_python = FALSE])
                  IN  IF trx THEN db_begin(C) ELSE C
             ELSE S
    IN  _save_checkpoint(T, name)

\* variant: a save without a name commits and leaves the undo entry alone
save_without_checkpoint(S, name, trx) ==
    LET T == IF S.db.modified_in_python \/ modified_by_backend(S)
             THEN LET C == db_commit([S EXCEPT !.db.modified_in_python = FALSE])
                  IN  IF trx THEN db_begin(C) ELSE C
             ELSE IF ~trx THEN db_rollback(S) ELSE S
    IN  IF name = "" THEN T ELSE _save_checkpoint(T, name)

\* name = "" stands for name=None
save(S, name, trx) ==
    LET T == IF S.db.modified_in_python \/ modified_by_backend(S)
             THEN LET C == db_commit([S EXCEPT !.db.modified_in_python = FALSE])
                  IN  IF trx THEN db_begin(C) ELSE C
             ELSE IF ~trx THEN db_rollback(S) ELSE S
    IN  _save_checkpoint(T, name)

\* the backend drops its undo and redo steps with the collection it closes
backend_close_collection(S) ==
    [S EXCEPT !.backend = [undo |-> <<>>, redo |-> <<>>]]

\* close(save): self.db is None afterwards
close(S, save_first) ==
    backend_close_collection(
        IF save_first THEN save(S, "", FALSE) ELSE db_rollback(S))

\* reopen(): a new DBProxy, a new transaction, no undo entry
reopen(S) ==
    db_begin([S EXCEPT !.since_checkpoint = 0,
                       !.undo = NoUndo,
                       !.db.modified_in_python = FALSE])

\* optimize(): vacuum and analyze run outside a transaction
optimize(S) == db_begin(save(S, "", FALSE))

\* variant: the transaction is restarted without being rolled back
rollback_keeps_changes(S) == db_begin(S)

rollback(S) == db_begin(db_rollback(S))

_check_backend_undo_status(S) ==
    IF status_undo(S) # "" \/ status_redo(S) # ""
    THEN clear_python_undo(S)
    ELSE S

_have_outstanding_checkpoint(S) ==
    _check_backend_undo_status(S).undo.kind = "checkpoint"

\* variant: a checkpoint is given up at AutosaveAfter seconds already
autosave_at_threshold(S) ==
    LET T == _check_backend_undo_status(S)
    IN  IF ~_have_outstanding_checkpoint(S)
        THEN save(T, "", TRUE)
        ELSE IF T.since_checkpoint >= AutosaveAfter
             THEN save(T, "", TRUE)
             ELSE T

autosave(S) ==
    LET T == _check_backend_undo_status(S)
    IN  IF ~_have_outstanding_checkpoint(S)
        THEN save(T, "", TRUE)
        ELSE IF T.since_checkpoint > AutosaveAfter
             THEN save(T, "", TRUE)
             ELSE T

(* ---------------- scheduler (V1/V2 share this interface) ---------------- *)
\* sched._cardConf(card): the deck options of the card's deck
_cardConf(card) ==
    IF card.did = 2 THEN [dyn |-> TRUE, resched |-> FALSE]
                    ELSE [dyn |-> FALSE, resched |-> TRUE]

previewing(card) == _cardConf(card).dyn /\ ~_cardConf(card).resched

\* variant: the queue indexes the tuple as it is
CounterOf_unfolded(queue) == <<"new", "lrn", "rev">>[(queue % 3) + 1]

\* the daily counter a queue is counted under: ("new", "lrn", "rev")[n], where
\* a negative n indexes the tuple from its end
CounterOf(queue) ==
    LET n == IF queue \in {QUEUE_TYPE_DAY_LEARN_RELEARN, QUEUE_TYPE_PREVIEW}
             THEN QUEUE_TYPE_LRN ELSE queue
    IN  <<"new", "lrn", "rev">>[(n % 3) + 1]

\* sched._updateStats(card, type, cnt)
_updateStats(S, type, cnt) ==
    [S EXCEPT !.store.today[type] = @ + cnt]

ActiveQueues ==
    {QUEUE_TYPE_NEW, QUEUE_TYPE_LRN, QUEUE_TYPE_REV,
     QUEUE_TYPE_DAY_LEARN_RELEARN, QUEUE_TYPE_PREVIEW}

\* sched.reset(): rebuild the in-memory queues from storage
sched_reset(S) ==
    [S EXCEPT !.sched.queued =
        {c \in CardIds : S.store.cards[c].queue \in ActiveQueues}]

\* the card as the answer processor leaves it
AnswerRow(card, grade) ==
    IF previewing(card)
    THEN IF grade = 1 THEN [card EXCEPT !.queue = QUEUE_TYPE_PREVIEW]
                      ELSE card
    ELSE IF card.queue = QUEUE_TYPE_NEW
    THEN [card EXCEPT !.queue = QUEUE_TYPE_LRN, !.type = CARD_TYPE_LRN,
                      !.due = 1]
    ELSE IF card.queue = QUEUE_TYPE_REV
    THEN IF grade = 1
         THEN [card EXCEPT !.queue = QUEUE_TYPE_LRN,
                           !.type = CARD_TYPE_RELEARNING,
                           !.lapses = @ + 1, !.ivl = 1, !.due = 1,
                           !.factor = Max(EaseFloor, @ - EaseLapseDelta)]
         ELSE [card EXCEPT !.ivl = @ + 1, !.due = card.ivl + 1]
    ELSE IF grade = 1
    THEN card
    ELSE IF card.type = CARD_TYPE_RELEARNING
    THEN [card EXCEPT !.queue = QUEUE_TYPE_REV, !.type = CARD_TYPE_REV,
                      !.due = card.ivl]
    ELSE [card EXCEPT !.queue = QUEUE_TYPE_REV, !.type = CARD_TYPE_REV,
                      !.ivl = GraduatingIvl, !.factor = StartingEase,
                      !.due = GraduatingIvl]

becomes_leech(card, grade) ==
    /\ ~previewing(card)
    /\ card.queue = QUEUE_TYPE_REV
    /\ grade = 1
    /\ card.lapses + 1 >= LeechThreshold

\* siblings of the answered card that wait in the new or review queue are
\* buried for the day (the deck option is on)
bury_siblings(S, cid) ==
    [S EXCEPT !.store.cards =
        [c \in CardIds |->
            IF /\ c # cid
               /\ S.store.cards[c].nid = S.store.cards[cid].nid
               /\ S.store.cards[c].queue \in {QUEUE_TYPE_NEW, QUEUE_TYPE_REV}
            THEN [S.store.cards[c] EXCEPT !.queue = QUEUE_TYPE_SIBLING_BURIED]
            ELSE S.store.cards[c]]]

(* ---------------- Collection: recording a review ---------------- *)
\* variant: a pending checkpoint is kept and the review is not recorded
save_card_review_undo_info_keeps_checkpoint(S, cid) ==
    IF S.undo.kind = "checkpoint"
    THEN S
    ELSE LET T == IF S.undo.kind # "reviews"
                  THEN [S EXCEPT !.undo = _ReviewsUndo(<<>>)]
                  ELSE S
             entry == ReviewUndo(cid, S.store.cards[cid], S.store.leech)
         IN  [T EXCEPT !.undo.entries = Append(@, entry)]

save_card_review_undo_info(S, cid) ==
    LET T == IF S.undo.kind # "reviews"
             THEN [S EXCEPT !.undo = _ReviewsUndo(<<>>)]
             ELSE S
        was_leech == S.store.leech
        entry == ReviewUndo(cid, S.store.cards[cid], was_leech)
    IN  [T EXCEPT !.undo.entries = Append(@, entry)]

\* a log row's id is its timestamp: later than the id of every stored row
NextRevlogId(S) ==
    LET ids == {S.store.revlog[i].id : i \in 1..Len(S.store.revlog)}
               \cup {S.disk.revlog[i].id : i \in 1..Len(S.disk.revlog)}
    IN  IF ids = {} THEN 1
        ELSE 1 + CHOOSE m \in ids : \A n \in ids : n <= m

\* V1/V2 answerCard: snapshot, mutate and flush the card, write the log row,
\* count the answer
answer_card(S, cid, grade, now) ==
    LET card == S.store.cards[cid]
        S1 == save_card_review_undo_info(S, cid)
        S2 == bury_siblings(S1, cid)
        S3 == backend_write_no_undo(
                  [S2 EXCEPT !.store.cards[cid] = AnswerRow(card, grade),
                             !.store.leech =
                                 @ \/ becomes_leech(card, grade)],
                  now)
        S4 == db_execute_dml(
                  [S3 EXCEPT !.store.revlog =
                       Append(@, [id |-> NextRevlogId(S), cid |-> cid])])
        S5 == _updateStats(S4, CounterOf(card.queue), 1)
    IN  [S5 EXCEPT !.sched.reps = @ + 1,
                   !.sched.queued = @ \ {cid}]

(* ---------------- Collection: scheduler selection ---------------- *)
\* conf.get("schedVer", 1); 0 stands for an absent key
\* variant: an absent key reads as version 2
schedVer_defaults_to_2(S) ==
    IF S.store.schedVer = 0 THEN 2 ELSE S.store.schedVer

\* the value is returned as read; schedVer_raises tells whether the call
\* raises instead
schedVer(S) == IF S.store.schedVer = 0 THEN 1 ELSE S.store.schedVer

schedVer_raises(S) == schedVer(S) \notin supportedSchedulerVersions

NewScheduler(gen) == [gen |-> gen, reps |-> 0, queued |-> {}]

_loadScheduler(S) ==
    LET ver == schedVer(S)
    IN  IF ver \notin supportedSchedulerVersions
        THEN S
        ELSE IF ver = 1
        THEN [S EXCEPT !.sched = NewScheduler(1)]
        ELSE IF S.store.sched2021
        THEN [S EXCEPT !.sched = NewScheduler(3)]
        ELSE [S EXCEPT !.sched = NewScheduler(2)]

\* the backend's one-way migration: nothing to do when already on version 2
backend_upgrade_scheduler(S, now) ==
    IF schedVer(S) = 2
    THEN S
    ELSE backend_write_no_undo([S EXCEPT !.store.schedVer = 2], now)

\* variant: the migration leaves the Python undo entry in place
upgrade_keeps_undo(S, now) ==
    _loadScheduler(backend_upgrade_scheduler(S, now))

upgrade_to_v2_scheduler(S, now) ==
    _loadScheduler(clear_python_undo(backend_upgrade_scheduler(S, now)))

set_2021_test_scheduler_enabled(S, enabled, now) ==
    IF S.store.sched2021 # enabled
    THEN _loadScheduler(
             backend_write_no_undo([S EXCEPT !.store.sched2021 = enabled], now))
    ELSE S

\* Collection.set_config("schedVer", ver) and remove_config("schedVer")
set_config_schedVer(S, ver, now) ==
    backend_write_no_undo([S EXCEPT !.store.schedVer = ver], now)

remove_config_schedVer(S, now) ==
    backend_write_no_undo([S EXCEPT !.store.schedVer = 0], now)

(* ---------------- Collection: schema, reset, updates ---------------- *)
schemaChanged(S) == S.store.scm

\* proceed is what hooks.schema_will_change answers
modSchema_aborts(S, check, proceed) ==
    ~schemaChanged(S) /\ check /\ ~proceed

\* variant: the stamp is written before the hook is asked
modSchema_writes_first(S, check, proceed) ==
    IF modSchema_aborts(S, check, proceed)
    THEN db_execute_dml([S EXCEPT !.store.scm = TRUE])
    ELSE save(db_execute_dml([S EXCEPT !.store.scm = TRUE]), "", TRUE)

modSchema(S, check, proceed) ==
    IF modSchema_aborts(S, check, proceed)
    THEN S
    ELSE save(db_execute_dml([S EXCEPT !.store.scm = TRUE]), "", TRUE)

\* variant: every reset() counts as a repetition of the session
reset_counts_rep(S) ==
    [sched_reset(autosave(S)) EXCEPT !.sched.reps = @ + 1]

\* variant: reset() also reloads the scheduler from the configuration
reset_reloads_scheduler(S) == sched_reset(_loadScheduler(autosave(S)))

reset(S) == sched_reset(autosave(S))

update_card(S, now) == backend_write_undoable(S, now, "Update Card")

update_note(S, now) == backend_write_undoable(S, now, "Update Note")

(* ---------------- Collection: undo ---------------- *)
\* variant: order by id asc, the oldest row of the card
LastRowOf_oldest(revlog, cid) ==
    LET rows == {i \in 1..Len(revlog) : revlog[i].cid = cid}
    IN  IF rows = {} THEN 0
        ELSE CHOOSE i \in rows : \A j \in rows : revlog[i].id <= revlog[j].id

\* select id from revlog where cid = ? order by id desc limit 1
\* as the position of that row in the log, 0 when the card has no row
LastRowOf(revlog, cid) ==
    LET rows == {i \in 1..Len(revlog) : revlog[i].cid = cid}
    IN  IF rows = {} THEN 0
        ELSE CHOOSE i \in rows : \A j \in rows : revlog[j].id <= revlog[i].id

RemoveAt(seq, i) ==
    IF i = 0 THEN seq
    ELSE SubSeq(seq, 1, i - 1) \o SubSeq(seq, i + 1, Len(seq))

\* update cards set queue=type where queue=-2 and nid=?
unbury_siblings(S, nid) ==
    [S EXCEPT !.store.cards =
        [c \in CardIds |->
            IF /\ S.store.cards[c].queue = QUEUE_TYPE_SIBLING_BURIED
               /\ S.store.cards[c].nid = nid
            THEN [S.store.cards[c] EXCEPT !.queue = S.store.cards[c].type]
            ELSE S.store.cards[c]]]

\* the writes of _undo_review, in the order of the code
NoFailure == "none"
FailNoteFlush == "card.note().flush()"
FailCardFlush == "card.flush()"
FailRevlogDelete == "delete from revlog"
FailUnbury == "update cards set queue=type"
FailurePoints ==
    {NoFailure, FailNoteFlush, FailCardFlush, FailRevlogDelete, FailUnbury}

\* variant: the oldest snapshot of the batch is the one restored
LastEntry_oldest(S) == S.undo.entries[1]

LastEntry(S) == S.undo.entries[Len(S.undo.entries)]

\* variant: the tag is removed whether or not the answer had added it
removes_leech_always(S) == S.store.leech

removes_leech(S) == ~LastEntry(S).was_leech /\ S.store.leech

\* a write can only fail if the code reaches it
CanFailAt(S, failAt) ==
    /\ failAt = FailNoteFlush => removes_leech(S)
    /\ failAt = FailRevlogDelete => ~previewing(LastEntry(S).card)

\* variant: the emptied batch is left in place
pop_entry_keeps_empty_batch(S) ==
    [S EXCEPT !.undo.entries = SubSeq(@, 1, Len(@) - 1)]

\* variant: the whole batch is dropped with the first undo
pop_entry_drops_batch(S) == clear_python_undo(S)

\* entry = self._undo.entries.pop(); the log is cleared with its last entry
pop_entry(S) ==
    LET popped == SubSeq(S.undo.entries, 1, Len(S.undo.entries) - 1)
    IN  IF popped = <<>>
        THEN clear_python_undo(S)
        ELSE [S EXCEPT !.undo.entries = popped]

\* variant: the queues are rebuilt before the rows are written back
_undo_review_resets_first(S, now, failAt) ==
    LET entry == LastEntry(S)
        card == entry.card
        U1 == sched_reset(pop_entry(S))
        U2 == IF removes_leech(S)
              THEN backend_write_no_undo([U1 EXCEPT !.store.leech = FALSE], now)
              ELSE U1
        U3 == backend_write_no_undo(
                  [U2 EXCEPT !.store.cards[entry.cid] = card], now)
        U4 == IF ~previewing(card)
              THEN db_execute_dml(
                       [U3 EXCEPT !.store.revlog =
                            RemoveAt(@, LastRowOf(@, entry.cid))])
              ELSE U3
        U5 == db_execute_dml(unbury_siblings(U4, card.nid))
        U6 == _updateStats(U5, CounterOf(card.queue), -1)
    IN  [U6 EXCEPT !.sched.reps = @ - 1]

\* failAt names the write that raises; NoFailure runs the method to its end
_undo_review(S, now, failAt) ==
    LET entry == LastEntry(S)
        card == entry.card
        U1 == pop_entry(S)
        U2 == IF removes_leech(S)
              THEN backend_write_no_undo([U1 EXCEPT !.store.leech = FALSE], now)
              ELSE U1
        U3 == backend_write_no_undo(
                  [U2 EXCEPT !.store.cards[entry.cid] = card], now)
        U4 == IF ~previewing(card)
              THEN db_execute_dml(
                       [U3 EXCEPT !.store.revlog =
                            RemoveAt(@, LastRowOf(@, entry.cid))])
              ELSE U3
        U5 == db_execute_dml(unbury_siblings(U4, card.nid))
        U6 == _updateStats(U5, CounterOf(card.queue), -1)
        U7 == [U6 EXCEPT !.sched.reps = @ - 1]
    IN  IF failAt = FailNoteFlush THEN U1
        ELSE IF failAt = FailCardFlush THEN U2
        ELSE IF failAt = FailRevlogDelete THEN U3
        ELSE IF failAt = FailUnbury THEN U4
        ELSE sched_reset(U7)

_undo_checkpoint(S) == clear_python_undo(rollback(S))

\* variant: the Python entry survives a backend undo
undo_keeps_python_entry(S, now, failAt) ==
    IF status_undo(S) # ""
    THEN backend_undo(S, now)
    ELSE IF S.undo.kind = "reviews"
    THEN _undo_review(S, now, failAt)
    ELSE IF S.undo.kind = "checkpoint"
    THEN _undo_checkpoint(S)
    ELSE S

\* variant: an empty log is treated like a checkpoint
undo_rolls_back_on_empty(S, now, failAt) ==
    IF status_undo(S) # ""
    THEN clear_python_undo(backend_undo(S, now))
    ELSE IF S.undo.kind = "reviews"
    THEN _undo_review(S, now, failAt)
    ELSE _undo_checkpoint(S)

undo(S, now, failAt) ==
    IF status_undo(S) # ""
    THEN clear_python_undo(backend_undo(S, now))
    ELSE IF S.undo.kind = "reviews"
    THEN _undo_review(S, now, failAt)
    ELSE IF S.undo.kind = "checkpoint"
    THEN _undo_checkpoint(S)
    ELSE S

undo_status(S) == _check_backend_undo_status(S)

(* ---------------- what a call returns ---------------- *)
Ret(op, ret, name, redo) ==
    [op |-> op, ret |-> ret, name |-> name, redo |-> redo]

\* a call that returns nothing, or whose return value is not tracked
Returned == Ret("", "ok", "", "")

undo_returns(S, failAt) ==
    IF status_undo(S) # ""
    THEN Ret("undo", "BackendUndo", status_undo(S), "")
    ELSE IF S.undo.kind = "reviews"
    THEN IF failAt = NoFailure
         THEN Ret("undo", "ReviewUndo", "", "")
         ELSE Ret("undo", "raise", "", "")
    ELSE IF S.undo.kind = "checkpoint"
    THEN Ret("undo", "Checkpoint", S.undo.name, "")
    ELSE Ret("undo", "None", "", "")

\* a call that ends in _loadScheduler(), S being the state it ends in
loadScheduler_returns(S) ==
    IF schedVer_raises(S)
    THEN Ret("schedVer", "raise", "Unsupported scheduler version", "")
    ELSE Returned

set_2021_test_scheduler_enabled_returns(S, enabled, now) ==
    IF S.store.sched2021 # enabled
    THEN loadScheduler_returns(set_2021_test_scheduler_enabled(S, enabled, now))
    ELSE Returned

modSchema_returns(S, check, proceed) ==
    IF modSchema_aborts(S, check, proceed)
    THEN Ret("modSchema", "raise", "abortSchemaMod", "")
    ELSE Returned

undo_status_returns(S) ==
    IF status_undo(S) # "" \/ status_redo(S) # ""
    THEN Ret("undo_status", "UndoStatus", status_undo(S), status_redo(S))
    ELSE IF S.undo.kind = "none"
    THEN Ret("undo_status", "UndoStatus", "", "")
    ELSE IF S.undo.kind = "reviews"
    THEN Ret("undo_status", "UndoStatus", ReviewLabel, "")
    ELSE Ret("undo_status", "UndoStatus", S.undo.name, "")

(* ---------------- initial state: a freshly opened collection ---------------- *)
NewCard == [nid |-> 1, did |-> 1, queue |-> QUEUE_TYPE_NEW,
            type |-> CARD_TYPE_NEW, due |-> 1, ivl |-> 0, factor |-> 0,
            lapses |-> 0]

\* a review card one lapse away from the leech threshold
ReviewCard(did) ==
    [nid |-> 1, did |-> did, queue |-> QUEUE_TYPE_REV,
     type |-> CARD_TYPE_REV, due |-> 2, ivl |-> 2, factor |-> StartingEase,
     lapses |-> LeechThreshold - 1]

NoPre == [valid |-> FALSE, cid |-> 0, card |-> NewCard, revlog |-> <<>>,
          today |-> [new |-> 0, lrn |-> 0, rev |-> 0]]

InitStore(did, ver) ==
    [cards |-> [c \in CardIds |-> IF c = 1 THEN NewCard ELSE ReviewCard(did)],
     revlog |-> <<>>,
     leech |-> FALSE,
     today |-> [new |-> 0, lrn |-> 0, rev |-> 0],
     schedVer |-> ver,
     sched2021 |-> FALSE,
     scm |-> FALSE,
     mod |-> 0]

\* Collection.__init__: reopen() and _loadScheduler()
Opened(did, ver) ==
    _loadScheduler(db_begin(
        [store |-> InitStore(did, ver),
         disk |-> InitStore(did, ver),
         db |-> [in_txn |-> FALSE, modified_in_python |-> FALSE,
                 last_begin_at |-> 0],
         undo |-> NoUndo,
         sched |-> NewScheduler(1),
         backend |-> [undo |-> <<>>, redo |-> <<>>],
         since_checkpoint |-> 0]))

\* the session starts in S, before any call
StartsAs(S) ==
    /\ store = S.store
    /\ disk = S.disk
    /\ db = S.db
    /\ _undo = S.undo
    /\ sched = S.sched
    /\ backend = S.backend
    /\ since_checkpoint = S.since_checkpoint
    /\ ops = 0
    /\ result = Returned
    /\ pre = NoPre

Init ==
    \E did \in Decks, ver \in {0, 2} : StartsAs(Opened(did, ver))

(* ---------------- actions: one per call ---------------- *)
Becomes(S) ==
    /\ store' = Renumbered(S).store
    /\ disk' = Renumbered(S).disk
    /\ db' = Renumbered(S).db
    /\ _undo' = S.undo
    /\ sched' = S.sched
    /\ backend' = S.backend
    /\ since_checkpoint' = S.since_checkpoint

Counted ==
    /\ ops < MaxOps
    /\ ops' = ops + 1

AnswerCard ==
    \E cid \in sched.queued, grade \in Grades :
        /\ sched.gen \in {1, 2}
        /\ store.cards[cid].queue \in ActiveQueues
        /\ Counted
        /\ Becomes(answer_card(Cur, cid, grade, Now))
        /\ result' = Returned
        /\ pre' = [valid |-> TRUE, cid |-> cid, card |-> store.cards[cid],
                   revlog |-> store.revlog, today |-> store.today]

Undo ==
    /\ Becomes(undo(Cur, Now, NoFailure))
    /\ result' = undo_returns(Cur, NoFailure)
    /\ ops' = ops
    /\ pre' = NoPre

\* undo() of a review during which one of the storage writes raises
UndoFails ==
    \E failAt \in FailurePoints \ {NoFailure} :
        /\ status_undo(Cur) = ""
        /\ _undo.kind = "reviews"
        /\ CanFailAt(Cur, failAt)
        /\ Becomes(undo(Cur, Now, failAt))
        /\ result' = undo_returns(Cur, failAt)
        /\ ops' = ops
        /\ pre' = NoPre

UndoStatus ==
    /\ Becomes(undo_status(Cur))
    /\ result' = undo_status_returns(Cur)
    /\ ops' = ops
    /\ pre' = NoPre

Save ==
    \E name \in CheckpointNames \cup {""} :
        /\ Becomes(save(Cur, name, TRUE))
        /\ result' = Returned
        /\ ops' = ops
        /\ pre' = NoPre


ModSchema ==
    \E check \in BOOLEAN, proceed \in BOOLEAN :
        /\ Becomes(modSchema(Cur, check, proceed))
        /\ result' = modSchema_returns(Cur, check, proceed)
        /\ ops' = ops
        /\ pre' = NoPre

Reset ==
    /\ Becomes(reset(Cur))
    /\ result' = Returned
    /\ ops' = ops
    /\ pre' = NoPre

UpdateCard ==
    /\ Len(backend.undo) < MaxBackendUndo
    /\ Counted
    /\ Becomes(update_card(Cur, Now))
    /\ result' = Returned
    /\ pre' = NoPre

UpdateNote ==
    /\ Len(backend.undo) < MaxBackendUndo
    /\ Counted
    /\ Becomes(update_note(Cur, Now))
    /\ result' = Returned
    /\ pre' = NoPre

UpgradeToV2Scheduler ==
    /\ IF schedVer(Cur) # 2 THEN Counted ELSE ops' = ops
    /\ Becomes(upgrade_to_v2_scheduler(Cur, Now))
    /\ result' = loadScheduler_returns(upgrade_to_v2_scheduler(Cur, Now))
    /\ pre' = NoPre

Set2021TestSchedulerEnabled ==
    \E enabled \in BOOLEAN :
        /\ IF store.sched2021 # enabled THEN Counted ELSE ops' = ops
        /\ Becomes(set_2021_test_scheduler_enabled(Cur, enabled, Now))
        /\ result' = set_2021_test_scheduler_enabled_returns(Cur, enabled, Now)
        /\ pre' = NoPre

\* more than AutosaveAfter seconds pass; the time is only read by autosave()
\* while a checkpoint is outstanding
Tick ==
    /\ _undo.kind = "checkpoint"
    /\ since_checkpoint <= AutosaveAfter
    /\ since_checkpoint' = AutosaveAfter + 1
    /\ UNCHANGED <<store, disk, db, _undo, sched, backend, ops, result, pre>>

\* exactly AutosaveAfter seconds have passed since the checkpoint
TickToThreshold ==
    /\ _undo.kind = "checkpoint"
    /\ since_checkpoint < AutosaveAfter
    /\ since_checkpoint' = AutosaveAfter
    /\ UNCHANGED <<store, disk, db, _undo, sched, backend, ops, result, pre>>

Next ==
    \/ AnswerCard
    \/ Undo
    \/ UndoStatus
    \/ Save
    \/ ModSchema
    \/ Reset
    \/ UpdateCard
    \/ UpdateNote
    \/ UpgradeToV2Scheduler
    \/ Set2021TestSchedulerEnabled
    \/ Tick

Spec == Init /\ [][Next]_vars

\* a review session in which storage writes may fail during undo()
NextFault ==
    \/ AnswerCard
    \/ Reset
    \/ Save
    \/ Undo
    \/ UndoFails

SpecFault == Init /\ [][NextFault]_vars

(* ---------------- a review session over every queue ---------------- *)
\* card 2 as storage may hold it in each of the queues that are studied; only
\* a card of the filtered deck waits in the preview queue
CardInQueue(did, queue) ==
    [ReviewCard(did) EXCEPT
        !.queue = queue,
        !.type = IF queue = QUEUE_TYPE_NEW THEN CARD_TYPE_NEW
                 ELSE IF queue = QUEUE_TYPE_LRN THEN CARD_TYPE_LRN
                 ELSE IF queue = QUEUE_TYPE_DAY_LEARN_RELEARN
                 THEN CARD_TYPE_RELEARNING
                 ELSE CARD_TYPE_REV]

OpenedWith(did, queue) ==
    LET S == Opened(did, 2)
    IN  [S EXCEPT !.store.cards[2] = CardInQueue(did, queue),
                  !.disk.cards[2] = CardInQueue(did, queue)]

InitQueues ==
    \E did \in Decks, queue \in ActiveQueues :
        /\ queue = QUEUE_TYPE_PREVIEW => did = 2
        /\ StartsAs(OpenedWith(did, queue))

NextQueues ==
    \/ AnswerCard
    \/ Reset
    \/ Undo

SpecQueues == InitQueues /\ [][NextQueues]_vars

(* ---------------- a session that rewrites the scheduler configuration ---------------- *)
\* the values a caller stores under "schedVer"; 3 is not supported
SchedVerValues == {1, 2, 3}

SetConfig ==
    \E ver \in SchedVerValues :
        /\ Counted
        /\ Becomes(set_config_schedVer(Cur, ver, Now))
        /\ result' = Returned
        /\ pre' = NoPre

RemoveConfig ==
    /\ Counted
    /\ Becomes(remove_config_schedVer(Cur, Now))
    /\ result' = Returned
    /\ pre' = NoPre

\* a collection opened with the 2021 flag as it was persisted
OpenedOn(ver, flag) ==
    LET S == Opened(1, ver)
    IN  _loadScheduler([S EXCEPT !.store.sched2021 = flag,
                                 !.disk.sched2021 = flag])

InitSched ==
    \E ver \in {0, 1, 2}, flag \in BOOLEAN : StartsAs(OpenedOn(ver, flag))

NextSched ==
    \/ SetConfig
    \/ RemoveConfig
    \/ Set2021TestSchedulerEnabled
    \/ UpgradeToV2Scheduler
    \/ AnswerCard
    \/ Reset

SpecSched == InitSched /\ [][NextSched]_vars

(* ---------------- a session that closes and reopens the collection ---------------- *)
\* between two calls the collection is open exactly when a transaction is
IsOpen == db.in_txn

Close ==
    \E save_first \in BOOLEAN :
        /\ IsOpen
        /\ Becomes(close(Cur, save_first))
        /\ result' = Returned
        /\ ops' = ops
        /\ pre' = NoPre

Reopen ==
    /\ ~IsOpen
    /\ Becomes(reopen(Cur))
    /\ result' = Returned
    /\ ops' = ops
    /\ pre' = NoPre

Optimize ==
    /\ IsOpen
    /\ Becomes(optimize(Cur))
    /\ result' = Returned
    /\ ops' = ops
    /\ pre' = NoPre

NextClose ==
    \/ Close
    \/ Reopen
    \/ Optimize
    \/ IsOpen /\ AnswerCard
    \/ IsOpen /\ UpdateCard
    \/ IsOpen /\ Save
    \/ IsOpen /\ Reset
    \/ IsOpen /\ Undo

SpecClose == Init /\ [][NextClose]_vars

(* ---------------- a review session with saves and schema changes ---------------- *)
NextSession ==
    \/ AnswerCard
    \/ Reset
    \/ Save
    \/ ModSchema
    \/ Undo

SpecSession == Init /\ [][NextSession]_vars

(* ---------------- a session in which checkpoints age ---------------- *)
NextAutosave ==
    \/ AnswerCard
    \/ Reset
    \/ Save
    \/ Undo
    \/ UpdateCard
    \/ Set2021TestSchedulerEnabled
    \/ Tick
    \/ TickToThreshold

SpecAutosave == Init /\ [][NextAutosave]_vars

(* ---------------- a session with checkpoints, commits and rollbacks ---------------- *)
Rollback ==
    /\ IsOpen
    /\ Becomes(rollback(Cur))
    /\ result' = Returned
    /\ ops' = ops
    /\ pre' = NoPre

NextCheckpoint ==
    \/ Close
    \/ Reopen
    \/ Rollback
    \/ Tick
    \/ IsOpen /\ AnswerCard
    \/ IsOpen /\ Reset
    \/ IsOpen /\ Save
    \/ IsOpen /\ Undo
    \/ IsOpen /\ UpdateCard
    \/ IsOpen /\ Set2021TestSchedulerEnabled

SpecCheckpoint == Init /\ [][NextCheckpoint]_vars

(* ---------------- properties ---------------- *)
\* the stored data, without the modification stamp
Data(st) ==
    [cards |-> st.cards, revlog |-> st.revlog, leech |-> st.leech,
     today |-> st.today, schedVer |-> st.schedVer,
     sched2021 |-> st.sched2021, scm |-> st.scm]

SchedulingFields(card) ==
    <<card.queue, card.type, card.due, card.ivl, card.factor, card.lapses>>

BackendUndoPending == backend.undo # <<>>

\* this step is an undo() that returns right after an answer_card()
UndoRightAfterAnswer ==
    /\ pre.valid
    /\ ~BackendUndoPending
    /\ Undo
    /\ result'.ret = "ReviewUndo"

\* C1 (as amended): undo() right after answer_card() under the v1/v2
\* scheduler, with no backend undo pending, writes back the card's queue,
\* type, due, interval, ease factor and lapse count as they were before the
\* answer; it deletes the most recent log row of that card and no other row,
\* unless the card is being previewed (filtered deck without rescheduling),
\* in which case it deletes no log row.
C1_UndoRestoresAnsweredCard ==
    [][UndoRightAfterAnswer =>
          /\ SchedulingFields(store'.cards[pre.cid]) = SchedulingFields(pre.card)
          /\ IF previewing(pre.card)
             THEN store'.revlog = store.revlog
             ELSE /\ store'.revlog = pre.revlog
                  /\ Len(store'.revlog) = Len(store.revlog) - 1]_vars

\* C1 as stated: every such undo() deletes exactly one log row
C1_AlwaysDeletesOneRow ==
    [][UndoRightAfterAnswer =>
          /\ SchedulingFields(store'.cards[pre.cid]) = SchedulingFields(pre.card)
          /\ Len(store'.revlog) = Len(store.revlog) - 1]_vars

\* a second answer of card 1 was undone: its first log row is still there and
\* the card is back in learning
C1_Witness ==
    /\ result.ret = "ReviewUndo"
    /\ Len(store.revlog) = 1
    /\ store.revlog[1].cid = 1
    /\ store.cards[1].queue = QUEUE_TYPE_LRN
    /\ Len(_undo.entries) = 1

\* C2: when the backend reports an undo, undo() runs the backend's undo,
\* drops the Python entry without applying it (cards, log, tags and counters
\* untouched, transaction neither rolled back nor restarted) and returns
\* BackendUndo with the backend's name; undo_status() returns the backend's
\* status and drops the Python entry as well.
C2_BackendUndoPreempts ==
    [][BackendUndoPending =>
          /\ Undo =>
                /\ result' = Ret("undo", "BackendUndo", status_undo(Cur), "")
                /\ _undo' = NoUndo
                /\ backend'.undo = SubSeq(backend.undo, 1, Len(backend.undo) - 1)
                /\ Data(store') = Data(store)
                /\ Data(disk') = Data(disk)
                /\ sched' = sched
                /\ db'.modified_in_python = db.modified_in_python
          /\ UndoStatus =>
                /\ result' = Ret("undo_status", "UndoStatus",
                                 status_undo(Cur), status_redo(Cur))
                /\ _undo' = NoUndo
                /\ UNCHANGED <<store, disk, db, sched, backend>>]_vars

\* a review was recorded, a card was updated through the backend, and undo()
\* took the backend's step: the review's log row and count are still there
C2_Witness ==
    /\ result = Ret("undo", "BackendUndo", "Update Card", "")
    /\ _undo = NoUndo
    /\ Len(store.revlog) = 1
    /\ sched.reps = 1

\* C3: the Python undo entry is always none, a reviews batch with at least
\* one snapshot, or a named checkpoint.
C3_UndoEntryShape ==
    \/ _undo = NoUndo
    \/ /\ _undo.kind = "reviews"
       /\ Len(_undo.entries) >= 1
       /\ _undo.name = ""
    \/ /\ _undo.kind = "checkpoint"
       /\ _undo.name \in CheckpointNames
       /\ _undo.entries = <<>>

\* one of two snapshots was just consumed
C3_Witness ==
    /\ _undo.kind = "reviews"
    /\ Len(_undo.entries) = 1
    /\ result.ret = "ReviewUndo"

(* steps of the non-review mutations *)
SavesNamed == \E name \in CheckpointNames : Becomes(save(Cur, name, TRUE))
SavesUnnamed == Becomes(save(Cur, "", TRUE))
ModifiesSchema ==
    \E check \in BOOLEAN, proceed \in BOOLEAN :
        /\ ~modSchema_aborts(Cur, check, proceed)
        /\ Becomes(modSchema(Cur, check, proceed))
UpdatesThroughBackend == UpdateCard \/ UpdateNote

\* undo() would reverse a review through the Python log
ReviewUndoable == _undo.kind = "reviews" /\ ~BackendUndoPending

\* C4 (as amended): a named save replaces a pending reviews batch with its
\* checkpoint, and right after a backend card or note update the backend's
\* undo step stands in front of the batch; an unnamed save() leaves the
\* batch and the backend's undo state as they are, and modSchema() leaves
\* the batch in place and undoable through the Python log.
C4_NamedSaveAndBackendDiscardReviews ==
    [][_undo.kind = "reviews" =>
          /\ SavesNamed => _undo'.kind = "checkpoint"
          /\ UpdatesThroughBackend => ~ReviewUndoable'
          /\ SavesUnnamed => _undo' = _undo /\ backend' = backend
          /\ ModifiesSchema => _undo' = _undo /\ ReviewUndoable']_vars

\* C4 as stated: after any non-review mutation no earlier review can be
\* undone through the Python log
C4_AnyMutationDiscardsReviews ==
    [][(/\ _undo.kind = "reviews"
        /\ (SavesNamed \/ SavesUnnamed \/ ModifiesSchema
              \/ UpdatesThroughBackend)) => ~ReviewUndoable']_vars

\* a review was recorded and committed by a named save that took its place
C4_Witness ==
    /\ _undo.kind = "checkpoint"
    /\ Len(disk.revlog) = 1
    /\ sched.reps = 1

\* C5 (as amended): each undo() of a review consumes one snapshot; a second
\* undo() right after it returns None exactly when that was the last snapshot
\* of the batch, and otherwise reverses the review recorded before it.
C5_UndoConsumesOneSnapshot ==
    [][Undo =>
          /\ result'.ret = "ReviewUndo" =>
                Len(_undo'.entries) = Len(_undo.entries) - 1
          /\ result.ret = "ReviewUndo" =>
                /\ result'.ret \in {"None", "ReviewUndo"}
                /\ result'.ret = "None" <=> _undo = NoUndo]_vars

\* C5 as stated: the undo() after a review undo returns None
C5_SecondUndoReturnsNone ==
    [][(Undo /\ result.ret = "ReviewUndo") => result'.ret = "None"]_vars

\* the first of two recorded reviews is still waiting after one undo()
C5_Witness ==
    /\ result.ret = "ReviewUndo"
    /\ _undo.kind = "reviews"
    /\ sched.reps = 1
    /\ ops = 2

\* C6: undo() with nothing to undo, in the backend or in the Python log,
\* returns None and changes nothing.
C6_UndoOnEmptyLog ==
    [][(Undo /\ ~BackendUndoPending /\ _undo = NoUndo) =>
          /\ result' = Ret("undo", "None", "", "")
          /\ UNCHANGED <<store, disk, db, _undo, sched, backend,
                         since_checkpoint>>]_vars

\* undo() found nothing although there are uncommitted changes to roll back
C6_Witness ==
    /\ result = Ret("undo", "None", "", "")
    /\ Data(store) # Data(disk)

\* C7: a storage write that fails during undo() of a review leaves the undo
\* entry, the leech tag, the card rows, the review log and the daily counters
\* as they were before the call.
C7_FailedUndoLeavesNoTrace ==
    [][UndoFails =>
          /\ _undo' = _undo
          /\ store'.leech = store.leech
          /\ store'.cards = store.cards
          /\ store'.revlog = store.revlog
          /\ store'.today = store.today]_vars

\* C8: undo() of a pending checkpoint, with no backend undo, rolls the
\* storage back to the last commit, opens a new transaction, clears the undo
\* entry and returns the checkpoint with its name; the undo() right after it
\* returns None.
C8_CheckpointUndoRollsBack ==
    [][Undo =>
          /\ (~BackendUndoPending /\ _undo.kind = "checkpoint") =>
                /\ result' = Ret("undo", "Checkpoint", _undo.name, "")
                /\ _undo' = NoUndo
                /\ Data(store') = Data(disk)
                /\ Data(disk') = Data(disk)
                /\ db'.in_txn
                /\ db'.last_begin_at = store'.mod
          /\ result.ret = "Checkpoint" => result'.ret = "None"]_vars

\* the rollback took back the uncommitted 2021 flag (the scheduler loaded for
\* it is still in place)
C8_Witness ==
    /\ result.ret = "Checkpoint"
    /\ _undo = NoUndo
    /\ ~store.sched2021
    /\ sched.gen = 3

\* C9 (as amended): the active scheduler generation changes only in
\* upgrade_to_v2_scheduler() and in set_2021_test_scheduler_enabled().
C9_GenerationChangesOnlyOnRequest ==
    [][sched'.gen # sched.gen =>
          (UpgradeToV2Scheduler \/ Set2021TestSchedulerEnabled)]_vars

\* C9 as stated: the generation changes only in upgrade_to_v2_scheduler()
C9_GenerationChangesOnlyInUpgrade ==
    [][sched'.gen # sched.gen => UpgradeToV2Scheduler]_vars

\* a collection opened on version 1 runs generation 2 after the migration
C9_Witness ==
    /\ sched.gen = 2
    /\ disk.schedVer = 0
    /\ store.schedVer = 2

\* C10: upgrade_to_v2_scheduler() clears the Python undo entry and loads the
\* scheduler for version 2, and no undo() takes the collection off version 2
\* again.
C10_MigrationClearsUndo ==
    [][/\ UpgradeToV2Scheduler =>
             /\ _undo' = NoUndo
             /\ store'.schedVer = 2
             /\ sched' = NewScheduler(IF store.sched2021 THEN 3 ELSE 2)
       /\ (Undo /\ store.schedVer = 2) => store'.schedVer = 2]_vars

\* a review was recorded, then the collection was migrated: the review's log
\* row is there, its undo entry is gone
C10_Witness ==
    /\ store.schedVer = 2
    /\ disk.schedVer = 0
    /\ Len(store.revlog) = 1
    /\ _undo = NoUndo
    /\ sched.reps = 0

\* this step is an undo() that reverses a review through the Python log
UndoesReview == Undo /\ result'.ret = "ReviewUndo"

\* the snapshot that the next undo() of a review restores
Snapshot == _undo.entries[Len(_undo.entries)]

\* the daily counter named for a queue
CounterForQueue(queue) ==
    IF queue = QUEUE_TYPE_NEW THEN "new"
    ELSE IF queue = QUEUE_TYPE_REV THEN "rev"
    ELSE "lrn"

\* C11: undo() of a review takes one off the daily counter of the restored
\* card's queue before the answer ("new" for a new card, "rev" for a review
\* card, "lrn" for a learning, day-learn/relearn or preview card) and one off
\* the session's rep count; the other counters stay, and right after the
\* answer the counters are back to what they were before it.
C11_UndoDecrementsAnsweredCounter ==
    [][UndoesReview =>
          /\ store'.today =
                 [store.today EXCEPT
                      ![CounterForQueue(Snapshot.card.queue)] = @ - 1]
          /\ sched'.reps = sched.reps - 1
          /\ pre.valid => store'.today = pre.today]_vars

\* the answer of a day-learn card was undone after a new card had been
\* answered: one new card stays counted, the learning count is back to zero
C11_Witness ==
    /\ result.ret = "ReviewUndo"
    /\ store.cards[2].queue = QUEUE_TYPE_DAY_LEARN_RELEARN
    /\ store.today = [new |-> 1, lrn |-> 0, rev |-> 0]
    /\ sched.reps = 1

\* C12: undo() of a review takes the "leech" tag off the note exactly when
\* the note did not carry it at the time of the snapshot and carries it now;
\* a note that was a leech before the answer keeps the tag, and no undo()
\* adds the tag.
C12_UndoRemovesNewLeechTag ==
    [][UndoesReview =>
          /\ (store.leech /\ ~store'.leech)
                 <=> (~Snapshot.was_leech /\ store.leech)
          /\ (Snapshot.was_leech /\ store.leech) => store'.leech
          /\ ~store.leech => ~store'.leech]_vars

\* card 2 lapsed into a leech, was answered again, and that second answer was
\* undone: the tag stays
C12_Witness ==
    /\ result.ret = "ReviewUndo"
    /\ store.leech
    /\ Len(store.revlog) = 1
    /\ store.revlog[1].cid = 2
    /\ Len(_undo.entries) = 1

GenerationFor(ver, flag) ==
    IF ver \in {0, 1} THEN 1
    ELSE IF flag THEN 3
    ELSE 2

\* this step is a call that reloaded the scheduler
ReloadsScheduler ==
    \/ UpgradeToV2Scheduler
    \/ Set2021TestSchedulerEnabled /\ store'.sched2021 # store.sched2021

\* C14: the scheduler loaded at open and at every reload is the one that
\* the stored version and 2021 flag select: generation 1 for an absent key
\* or version 1, for version 2 generation 2 or, with the flag set, the 2021
\* test scheduler; on any other value the call raises "Unsupported scheduler
\* version" and the scheduler loaded before stays as it was.
C14_SchedulerFollowsConfiguration ==
    /\ sched = NewScheduler(GenerationFor(store.schedVer, store.sched2021))
    /\ [][ReloadsScheduler =>
             IF store'.schedVer \in {0, 1, 2}
             THEN /\ sched' = NewScheduler(
                                  GenerationFor(store'.schedVer,
                                                store'.sched2021))
                  /\ result' = Returned
             ELSE /\ sched' = sched
                  /\ result' = Ret("schedVer", "raise",
                                   "Unsupported scheduler version", "")]_vars

\* the 2021 flag was set on a collection whose stored version is 3: the call
\* raised and the version 2 scheduler is still the active one
C14_Witness ==
    /\ result.ret = "raise"
    /\ store.schedVer = 3
    /\ store.sched2021
    /\ sched.gen = 2

\* the batch that a review is appended to
OpenBatch == IF _undo.kind = "reviews" THEN _undo.entries ELSE <<>>

\* C15: every review appends one snapshot, taken before the answer, to the
\* one open reviews batch (a new batch if none is open); every undo() of a
\* review restores the card of the most recent snapshot and removes that
\* snapshot and no other, so the batch shrinks by one, and the undo entry
\* becomes none exactly when the snapshot was the only one left.
C15_ReviewsBatchIsLifo ==
    [][/\ AnswerCard =>
             _undo' = _ReviewsUndo(
                          Append(OpenBatch,
                                 ReviewUndo(pre'.cid, store.cards[pre'.cid],
                                            store.leech)))
       /\ UndoesReview =>
             /\ store'.cards[Snapshot.cid] = Snapshot.card
             /\ _undo'.entries =
                    SubSeq(_undo.entries, 1, Len(_undo.entries) - 1)
             /\ _undo' = NoUndo <=> Len(_undo.entries) = 1]_vars

\* of two reviews of card 1 the second was undone: the snapshot of the new
\* card is the one that remains
C15_Witness ==
    /\ result.ret = "ReviewUndo"
    /\ Len(_undo.entries) = 1
    /\ _undo.entries[1].card.queue = QUEUE_TYPE_NEW
    /\ store.cards[1].queue = QUEUE_TYPE_LRN
    /\ store.today.new = 1

\* C16: save() without a name clears a pending checkpoint and leaves a
\* pending reviews batch as it is; save(name) puts Checkpoint(name) in the
\* place of whatever entry was pending.
C16_SaveAndPendingUndo ==
    [][Save =>
          /\ SavesUnnamed =>
                IF _undo.kind = "reviews" THEN _undo' = _undo
                                          ELSE _undo' = NoUndo
          /\ \A name \in CheckpointNames :
                Becomes(save(Cur, name, TRUE)) => _undo' = Checkpoint(name)]_vars

\* a review was committed by a save() that kept it undoable; the queue has
\* not been rebuilt since the answer
C16_Witness ==
    /\ _undo.kind = "reviews"
    /\ Data(disk) = Data(store)
    /\ Len(disk.revlog) = 1
    /\ ~db.modified_in_python
    /\ sched.queued # {c \in CardIds : store.cards[c].queue \in ActiveQueues}

\* a named checkpoint is pending and the backend has nothing to undo or redo
CheckpointOutstanding ==
    /\ _undo.kind = "checkpoint"
    /\ backend.undo = <<>>
    /\ backend.redo = <<>>

\* this step left everything that was pending committed
CommitsPending ==
    /\ Data(disk') = Data(store)
    /\ Data(store') = Data(store)
    /\ ~db'.modified_in_python
    /\ db'.in_txn

\* C17: the autosave() of reset() saves nothing while a checkpoint is
\* outstanding that is at most AutosaveAfter seconds old: the checkpoint, the
\* storage, the committed storage and the transaction stay as they are. With
\* no checkpoint outstanding it commits what is pending, and with a
\* checkpoint older than AutosaveAfter seconds it commits and clears the
\* checkpoint.
C17_AutosaveSparesFreshCheckpoint ==
    [][Reset =>
          /\ (CheckpointOutstanding /\ since_checkpoint <= AutosaveAfter) =>
                UNCHANGED <<store, disk, db, _undo, backend, since_checkpoint>>
          /\ (CheckpointOutstanding /\ since_checkpoint > AutosaveAfter) =>
                /\ CommitsPending
                /\ _undo' = NoUndo
          /\ ~CheckpointOutstanding =>
                /\ CommitsPending
                /\ _undo'.kind # "checkpoint"]_vars

\* the 2021 flag was set after a checkpoint, and a reset() when the
\* checkpoint was AutosaveAfter seconds old rebuilt the queues without
\* committing the flag
C17_Witness ==
    /\ _undo.kind = "checkpoint"
    /\ since_checkpoint = AutosaveAfter
    /\ store.sched2021
    /\ ~disk.sched2021
    /\ sched.gen = 3
    /\ sched.queued # {}

\* the call found something to commit
ChangesPending == db.modified_in_python \/ modified_by_backend(Cur)

\* C18: after save(trx=True) nothing is pending (the committed storage is the
\* working storage, which the call did not change) and a transaction is
\* open; after the save(trx=False) of close() no transaction is open: what
\* was pending has been committed, and a transaction without changes has
\* been rolled back without losing anything.
C18_SaveLeavesTransactionAsAsked ==
    [][/\ (IsOpen /\ Save) =>
             /\ Data(disk') = Data(store)
             /\ Data(store') = Data(store)
             /\ db'.in_txn
             /\ ~db'.modified_in_python
             /\ db'.last_begin_at = store'.mod
       /\ (Close /\ Becomes(close(Cur, TRUE))) =>
             /\ ~db'.in_txn
             /\ Data(store') = Data(store)
             /\ Data(disk') = Data(store)
             /\ ~ChangesPending => disk' = disk]_vars

\* the collection was closed with a review pending: its log row is committed
\* and no transaction is open
C18_Witness ==
    /\ ~db.in_txn
    /\ Len(disk.revlog) = 1
    /\ Data(disk) = Data(store)
    /\ sched.reps = 1

\* the cards that a rebuild of the queues finds in the given card rows
Studied(cards) == {c \in CardIds : cards[c].queue \in ActiveQueues}

\* C19: the queues that undo() of a review leaves are rebuilt from the rows
\* as the undo left them: the restored card is queued under its queue before
\* the answer, and the siblings that were buried are back in the queue of
\* their type, with the log row gone and the counters taken back.
C19_UndoRebuildsQueuesLast ==
    [][UndoesReview =>
          /\ sched'.queued = Studied(store'.cards)
          /\ Snapshot.cid \in sched'.queued
          /\ \A c \in CardIds :
                (/\ store.cards[c].queue = QUEUE_TYPE_SIBLING_BURIED
                 /\ store.cards[c].nid = Snapshot.card.nid) =>
                    /\ store'.cards[c].queue = store.cards[c].type
                    /\ c \in sched'.queued]_vars

\* the answer of the new card had buried its sibling; after the undo both
\* are queued again
C19_Witness ==
    /\ result.ret = "ReviewUndo"
    /\ store.cards[1] = NewCard
    /\ store.cards[2].queue = QUEUE_TYPE_REV
    /\ sched.queued = CardIds
    /\ _undo = NoUndo

\* this step is modSchema(check) with the given answer of the hook
ModSchemaWith(check, proceed) ==
    /\ result' = modSchema_returns(Cur, check, proceed)
    /\ ops' = ops
    /\ pre' = NoPre
    /\ Becomes(modSchema(Cur, check, proceed))

\* C20: modSchema(check=True) on a schema not yet marked changed, with the
\* hook declining, raises AnkiError("abortSchemaMod") and leaves the schema
\* stamp, the storage, the committed storage, the transaction and the undo
\* entry as they were; in every other case the schema is marked changed and
\* the mark is committed.
C20_DeclinedSchemaChangeWritesNothing ==
    [][\A check \in BOOLEAN, proceed \in BOOLEAN :
          ModSchemaWith(check, proceed) =>
              IF ~store.scm /\ check /\ ~proceed
              THEN /\ result' = Ret("modSchema", "raise", "abortSchemaMod", "")
                   /\ UNCHANGED <<store, disk, db, _undo, sched, backend,
                                  since_checkpoint>>
              ELSE /\ result' = Returned
                   /\ store'.scm
                   /\ disk'.scm]_vars

\* the hook declined while a review was pending and uncommitted: both are
\* still so
C20_Witness ==
    /\ result = Ret("modSchema", "raise", "abortSchemaMod", "")
    /\ _undo.kind = "reviews"
    /\ ~store.scm
    /\ Len(store.revlog) = 1
    /\ disk.revlog = <<>>

\* this step is an undo() that rolls back to a checkpoint
UndoesCheckpoint == Undo /\ result'.ret = "Checkpoint"

\* C21: a checkpoint is recorded with everything before it committed; while
\* it stays pending the committed storage does not change (a step that
\* commits leaves no checkpoint, or a checkpoint recorded after its commit);
\* so the undo() of a checkpoint, which rolls back to the committed storage,
\* restores the storage as it was when the checkpoint was recorded.
C21_NoCommitUnderCheckpoint ==
    [][/\ (_undo'.kind = "checkpoint" /\ Data(disk') # Data(disk)) =>
             /\ Data(store') = Data(disk')
             /\ since_checkpoint' = 0
       /\ (_undo'.kind = "checkpoint" /\ _undo.kind # "checkpoint") =>
             /\ Data(store') = Data(disk')
             /\ since_checkpoint' = 0
       /\ UndoesCheckpoint =>
             /\ Data(store') = Data(disk)
             /\ Data(disk') = Data(disk)]_vars

\* a review was committed by the save that recorded the checkpoint, the 2021
\* flag was set after it, and undo() took the checkpoint: the review's log
\* row is kept, the flag is taken back
C21_Witness ==
    /\ result.ret = "Checkpoint"
    /\ Len(store.revlog) = 1
    /\ ~store.sched2021
    /\ sched.gen = 3
    /\ sched.reps = 0

\* C22: in every state undo() would return something other than None exactly
\* when undo_status() reports a non-empty undo name, also when the backend
\* offers a redo and no undo while the Python log holds an entry.
C22_UndoAgreesWithStatus ==
    (undo_returns(Cur, NoFailure).ret # "None")
        <=> (undo_status_returns(Cur).name # "")

\* C23: a review recorded while a checkpoint is pending puts a reviews batch
\* of that one snapshot in the checkpoint's place; nothing is rolled back or
\* committed by it (the configuration written since the checkpoint and the
\* committed storage stay, the transaction stays open). The undo() right
\* after it reverses the review, leaves no undo entry and rolls nothing back
\* either, so the checkpoint is not undone by any later undo().
C23_ReviewReplacesCheckpoint ==
    [][/\ (AnswerCard /\ _undo.kind = "checkpoint") =>
             /\ _undo' = _ReviewsUndo(
                             <<ReviewUndo(pre'.cid, store.cards[pre'.cid],
                                          store.leech)>>)
             /\ Data(disk') = Data(disk)
             /\ store'.sched2021 = store.sched2021
             /\ store'.schedVer = store.schedVer
             /\ store'.scm = store.scm
             /\ db'.in_txn
       /\ (Undo /\ pre.valid /\ Len(_undo.entries) = 1) =>
             /\ result'.ret = "ReviewUndo"
             /\ _undo' = NoUndo
             /\ Data(disk') = Data(disk)
             /\ store'.sched2021 = store.sched2021
       /\ (Undo /\ result.ret = "ReviewUndo") =>
             result'.ret # "Checkpoint"]_vars

\* a review recorded over an uncommitted change of the 2021 flag (the change a
\* rollback to the checkpoint would discard) has been undone: the flag is
\* still set and still uncommitted, and no undo entry is left
C23_Witness ==
    /\ result.ret = "ReviewUndo"
    /\ _undo = NoUndo
    /\ store.sched2021
    /\ ~disk.sched2021
    /\ store.revlog = <<>>

====
